---- MODULE Spec2Model ----
(***************************************************************************)
(* dynesty/results.py: the Results container (construction, attribute      *)
(* interception, lookup, items, isdynamic), results_substitute, and the    *)
(* value adjustments of get_print_fn_args.                                 *)
(*                                                                         *)
(* A Results object is its instance dictionary: the three internal         *)
(* attributes _keys, _initialized, _dynamic (fields keys, initialized,     *)
(* dynamic) and the remaining attributes (field attrs, name -> value).     *)
(* Field values are opaque to the container; they are integers here.       *)
(* Construction inputs are sequences of (key, value) pairs over the field  *)
(* names of a run trace; a pair's value is its position in the input, so   *)
(* that every pair is told apart from every other.                         *)
(***************************************************************************)
EXTENDS Integers, Sequences, FiniteSets, TLC

VARIABLES
    obj,       \* the trace the caller holds (NoObj before a construction succeeds)
    built,     \* history: the trace as its construction left it, and the input given
    writes,    \* history: the number of attribute assignments that went through
    tampered,  \* history: an underscore-named attribute was assigned after construction
    res,       \* the trace returned by the last results_substitute / Results(t.items())
    yielded,   \* the pairs the last items() call yielded
    last,      \* the last call: its arguments and its outcome
    pin,       \* get_print_fn_args: the arguments of the call
    pout       \* get_print_fn_args: what it returned

vars == <<obj, built, writes, tampered, res, yielded, last, pin, pout>>

---------------------------------------------------------------------------
(* Bounds of the exploration *)

\* at most this many field names are left out of a construction input
MaxRemoved == 2
\* at most this many attribute assignments succeed on one trace
MaxWrites == 2
\* at most this many keys in the kw_dict of results_substitute
MaxKw == 2

---------------------------------------------------------------------------
(* Helpers on sequences *)

Range(s) == {s[i] : i \in 1..Len(s)}

Reverse(s) == [i \in 1..Len(s) |-> s[Len(s) + 1 - i]]

MinOf(S) == CHOOSE x \in S : \A y \in S : x <= y

MaxOf(S) == CHOOSE x \in S : \A y \in S : y <= x

\* the keys of a sequence of (key, value) pairs, in order
KeysOf(kv) == [i \in 1..Len(kv) |-> kv[i][1]]

EmptyAttrs == [k \in {} |-> 0]

---------------------------------------------------------------------------
(* Results.__init__ *)

\* variant: required_keys without its last entry
RequiredKeysDropLast == <<"samples_u", "samples_id", "logl", "logwt", "logz", "logzerr">>

\* required_keys, in the order the constructor checks them
RequiredKeys == <<"samples_u", "samples_id", "logl", "logwt", "logz", "logzerr", "samples">>

\* name[0] of an attribute name ("" has no first character: IndexError)
InternalNames == {"_keys", "_initialized", "_dynamic"}

\* "_" for an underscore name, "a" for any other non-empty name
FirstChar(name) == IF name \in InternalNames THEN "_" ELSE IF name = "" THEN "" ELSE "a"

\* variant: the underscore test inverted
SetAttrCheckInverted(name, initialized) ==
    IF name = "" THEN "IndexError"
    ELSE IF FirstChar(name) = "_" /\ initialized THEN "RuntimeError"
    ELSE ""

\* variant: only the required keys are protected
SetAttrCheckKeysOnly(name, initialized) ==
    IF name = "" THEN "IndexError"
    ELSE IF name \in Range(RequiredKeys) /\ initialized THEN "RuntimeError"
    ELSE ""

\* __setattr__: "" when the assignment goes through to object.__setattr__,
\* otherwise the exception raised
SetAttrCheck(name, initialized) ==
    IF name = "" THEN "IndexError"
    ELSE IF FirstChar(name) # "_" /\ initialized THEN "RuntimeError"
    ELSE ""

NoObj == [alive |-> FALSE, keys |-> <<>>, initialized |-> FALSE, dynamic |-> FALSE,
          attrs |-> EmptyAttrs]

\* the loop "for k, v in key_values: self._keys.append(k); setattr(self, k, v)",
\* run with _initialized False: [keys: _keys after it, attrs: the attributes set
\* (a key given again is set again: the later value stays), err: the exception
\* of the first setattr that raises, or ""]
InitLoop(kv) ==
    LET bad == {i \in 1..Len(kv) : SetAttrCheck(kv[i][1], FALSE) # ""}
        n == IF bad = {} THEN Len(kv) ELSE MinOf(bad) - 1
        done == SubSeq(kv, 1, n)
    IN  [keys |-> IF bad = {} THEN KeysOf(kv) ELSE KeysOf(SubSeq(kv, 1, n + 1)),
         attrs |-> [k \in Range(KeysOf(done)) |->
                       done[CHOOSE i \in 1..n :
                                /\ done[i][1] = k
                                /\ \A j \in (i + 1)..n : done[j][1] # k][2]],
         err |-> IF bad = {} THEN "" ELSE SetAttrCheck(kv[n + 1][1], FALSE)]

\* the first required key that is not in _keys, or "" when none is missing
FirstMissing(keys) ==
    LET miss == {i \in 1..Len(RequiredKeys) : RequiredKeys[i] \notin Range(keys)}
    IN  IF miss = {} THEN "" ELSE RequiredKeys[MinOf(miss)]

\* variant: no error when neither field is given
LiveInfoDefaultDynamic(keys) ==
    IF "nlive" \in Range(keys) THEN "static" ELSE "dynamic"

\* variant: samples_n tested before nlive
LiveInfoDynamicFirst(keys) ==
    IF "samples_n" \in Range(keys) THEN "dynamic"
    ELSE IF "nlive" \in Range(keys) THEN "static"
    ELSE "missing"

\* the nlive / samples_n decision: "static", "dynamic" or "missing"
LiveInfo(keys) ==
    IF "nlive" \in Range(keys) THEN "static"
    ELSE IF "samples_n" \in Range(keys) THEN "dynamic"
    ELSE "missing"

\* Results(key_values): [o: the object returned (NoObj when an exception leaves
\* the constructor), err: the exception type or "", errkey: the key it names]
ResultsInit(kv) ==
    LET st == InitLoop(kv)
    IN  IF st.err # "" THEN [o |-> NoObj, err |-> st.err, errkey |-> ""]
        ELSE IF FirstMissing(st.keys) # ""
        THEN [o |-> NoObj, err |-> "ValueError", errkey |-> FirstMissing(st.keys)]
        ELSE IF LiveInfo(st.keys) = "missing"
        THEN [o |-> NoObj, err |-> "ValueError", errkey |-> ""]
        ELSE [o |-> [alive |-> TRUE, keys |-> st.keys, initialized |-> TRUE,
                     dynamic |-> (LiveInfo(st.keys) = "dynamic"), attrs |-> st.attrs],
              err |-> "", errkey |-> ""]

---------------------------------------------------------------------------
(* Accessors *)

\* variant: the pairs in reverse key order
ItemsReversed(o) ==
    IF \E i \in 1..Len(o.keys) : o.keys[i] \notin DOMAIN o.attrs
    THEN [pairs |-> <<>>, err |-> "AttributeError"]
    ELSE [pairs |-> Reverse([i \in 1..Len(o.keys) |-> <<o.keys[i], o.attrs[o.keys[i]]>>]),
          err |-> ""]

\* items(): the generator ((k, getattr(self, k)) for k in self._keys), consumed;
\* getattr of a name that is no attribute raises AttributeError
Items(o) ==
    IF \E i \in 1..Len(o.keys) : o.keys[i] \notin DOMAIN o.attrs
    THEN [pairs |-> <<>>, err |-> "AttributeError"]
    ELSE [pairs |-> [i \in 1..Len(o.keys) |-> <<o.keys[i], o.attrs[o.keys[i]]>>],
          err |-> ""]

\* __getitem__
GetItemOf(o, name) ==
    IF name \in Range(o.keys)
    THEN IF name \in DOMAIN o.attrs THEN [err |-> "", ret |-> o.attrs[name]]
         ELSE [err |-> "AttributeError", ret |-> 0]
    ELSE [err |-> "KeyError", ret |-> 0]

\* isdynamic()
IsDynamicOf(o) == o.dynamic

\* variant: a kw_dict key that is no key of the trace is appended
SubstListAddsKeys(pairs, kw) ==
    LET base == [i \in 1..Len(pairs) |->
                    IF pairs[i][1] \notin DOMAIN kw THEN pairs[i]
                    ELSE <<pairs[i][1], kw[pairs[i][1]]>>]
        extra == DOMAIN kw \ Range(KeysOf(pairs))
    IN  IF extra = {} THEN base
        ELSE LET k == CHOOSE x \in extra : TRUE IN Append(base, <<k, kw[k]>>)

\* variant: the membership test negated
SubstListSwapped(pairs, kw) ==
    [i \in 1..Len(pairs) |->
        IF pairs[i][1] \in DOMAIN kw THEN pairs[i]
        ELSE <<pairs[i][1], 0>>]

\* the list new_list that results_substitute builds from results.items()
SubstList(pairs, kw) ==
    [i \in 1..Len(pairs) |->
        IF pairs[i][1] \notin DOMAIN kw THEN pairs[i]
        ELSE <<pairs[i][1], kw[pairs[i][1]]>>]

\* results_substitute(results, kw_dict)
ResultsSubstitute(o, kw) ==
    LET it == Items(o)
    IN  IF it.err # "" THEN [o |-> NoObj, err |-> it.err, errkey |-> ""]
        ELSE ResultsInit(SubstList(it.pairs, kw))

---------------------------------------------------------------------------
(* get_print_fn_args *)

\* floating-point values: a number (integers here), nan, inf, -inf; None for an
\* optional argument that is not given
Num(n) == [k |-> "num", v |-> n]

NaN == [k |-> "nan", v |-> 0]

PInf == [k |-> "inf", v |-> 0]

NInf == [k |-> "ninf", v |-> 0]

None == [k |-> "none", v |-> 0]

\* a <= b, a > b, a >= b of floats: every comparison with nan is false
FLe(a, b) ==
    IF a.k = "nan" \/ b.k = "nan" THEN FALSE
    ELSE IF a.k = "ninf" \/ b.k = "inf" THEN TRUE
    ELSE IF a.k = "inf" \/ b.k = "ninf" THEN FALSE
    ELSE a.v <= b.v

FGe(a, b) == FLe(b, a)

FGt(a, b) == IF a.k = "nan" \/ b.k = "nan" THEN FALSE ELSE ~FLe(a, b)

\* np.sqrt, rounded down to an integer (exact on the perfect squares used)
Sqrt(x) ==
    IF x.k = "num"
    THEN IF x.v < 0 THEN NaN
         ELSE Num(CHOOSE r \in 0..1001 : r * r <= x.v /\ (r + 1) * (r + 1) > x.v)
    ELSE IF x.k = "inf" THEN PInf ELSE NaN

\* the sanity bound 1e6 and the floor -1e6 of the adjustments
SanityBound == 1000000

FloorSentinel == -1000000

\* variant: delta_logz compared with >=
AdjustInclusive(r) ==
    [delta_logz |-> IF FGe(r.delta_logz, Num(SanityBound)) THEN PInf ELSE r.delta_logz,
     logzerr |-> IF FGe(r.logzvar, Num(0)) /\ FLe(r.logzvar, Num(SanityBound))
                 THEN Sqrt(r.logzvar) ELSE NaN,
     logz |-> IF FLe(r.logz, Num(FloorSentinel)) THEN NInf ELSE r.logz,
     loglstar |-> IF FLe(r.loglstar, Num(FloorSentinel)) THEN NInf ELSE r.loglstar]

\* "Adjusting outputs for printing"
Adjust(r) ==
    [delta_logz |-> IF FGt(r.delta_logz, Num(SanityBound)) THEN PInf ELSE r.delta_logz,
     logzerr |-> IF FGe(r.logzvar, Num(0)) /\ FLe(r.logzvar, Num(SanityBound))
                 THEN Sqrt(r.logzvar) ELSE NaN,
     logz |-> IF FLe(r.logz, Num(FloorSentinel)) THEN NInf ELSE r.logz,
     loglstar |-> IF FLe(r.loglstar, Num(FloorSentinel)) THEN NInf ELSE r.loglstar]

\* one formatted string: the format and the values formatted into it
Item(fmt, args) == [fmt |-> fmt, args |-> args]

IfGiven(x, item) == IF x.k = "none" THEN <<>> ELSE <<item>>

\* get_print_fn_args(results, niter, ncall, ...): (niter, short_str, mid_str,
\* long_str), or the TypeError of formatting None when neither dlogz nor
\* stop_val is given
GetPrintFnArgs(a) ==
    LET adj == Adjust(a.results)
        eff == Item("eff(%): {:6.3f}", <<a.results.eff>>)
        long0 == IfGiven(a.add_live_it, Item("+{:d}", <<a.add_live_it>>))
        short0 == long0
        long1 == long0 \o IfGiven(a.nbatch, Item("batch: {:d}", <<a.nbatch>>))
                       \o <<Item("bound: {:d}", <<a.results.bounditer>>),
                            Item("nc: {:d}", <<a.results.nc>>),
                            Item("ncall: {:d}", <<a.ncall>>),
                            eff>>
        short1 == Append(short0, eff)
        long2 == long1 \o <<Item("loglstar: {:6.3f} < {:6.3f} < {:6.3f}",
                                 <<a.logl_min, adj.loglstar, a.logl_max>>),
                            Item("logz: {:6.3f} +/- {:6.3f}", <<adj.logz, adj.logzerr>>)>>
        short2 == short1 \o <<Item("logl*: {:6.1f}<{:6.1f}<{:6.1f}",
                                   <<a.logl_min, adj.loglstar, a.logl_max>>),
                              Item("logz: {:6.1f}+/-{:.1f}", <<adj.logz, adj.logzerr>>)>>
        mid2 == short2
        long3 == IF a.dlogz.k # "none"
                 THEN Append(long2, Item("dlogz: {:6.3f} > {:6.3f}", <<adj.delta_logz, a.dlogz>>))
                 ELSE Append(long2, Item("stop: {:6.3f}", <<a.stop_val>>))
        mid3 == IF a.dlogz.k # "none"
                THEN Append(mid2, Item("dlogz: {:6.1f}>{:6.1f}", <<adj.delta_logz, a.dlogz>>))
                ELSE Append(mid2, Item("stop: {:6.3f}", <<a.stop_val>>))
    IN  IF a.dlogz.k = "none" /\ a.stop_val.k = "none"
        THEN [called |-> TRUE, err |-> "TypeError", niter |-> a.niter,
              short_str |-> <<>>, mid_str |-> <<>>, long_str |-> <<>>]
        ELSE [called |-> TRUE, err |-> "", niter |-> a.niter,
              short_str |-> short2, mid_str |-> mid3, long_str |-> long3]

\* the values a call is made with
VarianceValues ==
    {Num(0 - 1), Num(0), Num(4), Num(SanityBound), Num(SanityBound + 1), NaN, PInf, NInf}

DeltaValues == {Num(0), Num(SanityBound), Num(SanityBound + 1), NaN, PInf}

LevelValues ==
    {Num(0), Num(FloorSentinel + 1), Num(FloorSentinel), Num(FloorSentinel - 1), NInf, NaN}

Optional == {None, Num(1)}

PrintArgs ==
    {[results |-> [loglstar |-> ls, logz |-> lz, logzvar |-> var, delta_logz |-> dz,
                   bounditer |-> Num(1), nc |-> Num(1), eff |-> Num(1)],
      niter |-> Num(1), ncall |-> Num(1), add_live_it |-> al, dlogz |-> dl,
      stop_val |-> sv, nbatch |-> nb, logl_min |-> NInf, logl_max |-> PInf] :
        ls \in LevelValues, lz \in LevelValues, var \in VarianceValues, dz \in DeltaValues,
        al \in Optional, dl \in Optional, sv \in Optional, nb \in Optional}

NoArgs ==
    [results |-> [loglstar |-> Num(0), logz |-> Num(0), logzvar |-> Num(0),
                  delta_logz |-> Num(0), bounditer |-> Num(1), nc |-> Num(1),
                  eff |-> Num(1)],
     niter |-> Num(1), ncall |-> Num(1), add_live_it |-> None, dlogz |-> None,
     stop_val |-> None, nbatch |-> None, logl_min |-> NInf, logl_max |-> PInf]

NoOut == [called |-> FALSE, err |-> "", niter |-> Num(0),
          short_str |-> <<>>, mid_str |-> <<>>, long_str |-> <<>>]

---------------------------------------------------------------------------
(* Inputs *)

\* the field names of a run trace: the required ones, the two live-point
\* fields and one auxiliary field.  Keys are field names: public, non-empty
\* names (a key that starts with an underscore would pass __setattr__ inside
\* the constructor's loop and rebind an internal attribute; no caller in the
\* repository gives one).
FieldNames == RequiredKeys \o <<"nlive", "samples_n", "niter">>

\* the key that may be given a second time, after the others
DupKeys == {"logl"}

KeySeq(removed, rev, dup) ==
    LET Keep(k) == k \notin removed
        base == SelectSeq(FieldNames, Keep)
        ord == IF rev THEN Reverse(base) ELSE base
    IN  IF dup = "" THEN ord ELSE Append(ord, dup)

\* the pair at position i carries the value i
PairsOf(ks) == [i \in 1..Len(ks) |-> <<ks[i], i>>]

KeyValueInputs ==
    {PairsOf(KeySeq(removed, rev, dup)) :
        removed \in {S \in SUBSET Range(FieldNames) : Cardinality(S) <= MaxRemoved},
        rev \in BOOLEAN, dup \in DupKeys \cup {""}}

\* attribute names assigned after construction: a field, a name that is no
\* field, the empty name, and (separately) the internal names
PublicNames == {"logl", "newattr", ""}

\* names looked up with []
LookupNames == {"logl", "bogus"}

\* kw_dict: up to MaxKw of these names, the i-th mapped to -i
KwNames == <<"logl", "nlive", "samples_n", "bogus">>

KwDicts ==
    {[k \in D |-> 0 - (CHOOSE i \in 1..Len(KwNames) : KwNames[i] = k)] :
        D \in {S \in SUBSET Range(KwNames) : Cardinality(S) <= MaxKw}}

\* the lists _keys is rebound to
KeysChoices(o) == {<<>>, Reverse(o.keys), Append(o.keys, "ghost")}

---------------------------------------------------------------------------
(* The calls *)

NoCall == [op |-> "", name |-> "", val |-> 0, flag |-> FALSE, keys |-> <<>>,
           kv |-> <<>>, kw |-> EmptyAttrs, err |-> "", errkey |-> "", ret |-> 0]

NoBuilt == [o |-> NoObj, given |-> <<>>]

Init ==
    /\ obj = NoObj
    /\ built = NoBuilt
    /\ writes = 0
    /\ tampered = FALSE
    /\ res = NoObj
    /\ yielded = <<>>
    /\ last = NoCall
    /\ pin = NoArgs
    /\ pout = NoOut

\* t = Results(key_values); when the constructor raises, t is not bound.
\* The constructor reads nothing but its argument, so one construction is made:
\* the first call of a run.
Construct(kv) ==
    /\ last.op = ""
    /\ ~obj.alive
    /\ LET r == ResultsInit(kv)
       IN  /\ obj' = r.o
           /\ built' = IF r.err = "" THEN [o |-> r.o, given |-> kv] ELSE built
           /\ last' = [NoCall EXCEPT !.op = "construct", !.kv = kv, !.err = r.err,
                                     !.errkey = r.errkey]
    /\ res' = NoObj
    /\ yielded' = <<>>
    /\ UNCHANGED <<writes, tampered, pin, pout>>

\* t.<name> = v for a name that is not one of the internal attributes
SetAttr(name, v) ==
    /\ obj.alive
    /\ LET e == SetAttrCheck(name, obj.initialized)
       IN  /\ e = "" => writes < MaxWrites
           /\ obj' = IF e # "" THEN obj
                     ELSE [obj EXCEPT !.attrs =
                             [n \in DOMAIN @ \cup {name} |-> IF n = name THEN v ELSE @[n]]]
           /\ writes' = IF e = "" THEN writes + 1 ELSE writes
           /\ last' = [NoCall EXCEPT !.op = "setattr", !.name = name, !.val = v, !.err = e]
    /\ res' = NoObj
    /\ yielded' = <<>>
    /\ UNCHANGED <<built, tampered, pin, pout>>

\* t._keys = ks
SetKeys(ks) ==
    /\ obj.alive
    /\ LET e == SetAttrCheck("_keys", obj.initialized)
       IN  /\ e = "" => writes < MaxWrites
           /\ obj' = IF e # "" THEN obj ELSE [obj EXCEPT !.keys = ks]
           /\ writes' = IF e = "" THEN writes + 1 ELSE writes
           /\ tampered' = (tampered \/ e = "")
           /\ last' = [NoCall EXCEPT !.op = "setattr", !.name = "_keys", !.keys = ks,
                                     !.err = e]
    /\ res' = NoObj
    /\ yielded' = <<>>
    /\ UNCHANGED <<built, pin, pout>>

\* t._initialized = b, t._dynamic = b
SetFlag(name, b) ==
    /\ obj.alive
    /\ LET e == SetAttrCheck(name, obj.initialized)
       IN  /\ e = "" => writes < MaxWrites
           /\ obj' = IF e # "" THEN obj
                     ELSE IF name = "_initialized" THEN [obj EXCEPT !.initialized = b]
                     ELSE [obj EXCEPT !.dynamic = b]
           /\ writes' = IF e = "" THEN writes + 1 ELSE writes
           /\ tampered' = (tampered \/ e = "")
           /\ last' = [NoCall EXCEPT !.op = "setattr", !.name = name, !.flag = b, !.err = e]
    /\ res' = NoObj
    /\ yielded' = <<>>
    /\ UNCHANGED <<built, pin, pout>>

\* t[name]
GetItem(name) ==
    /\ obj.alive
    /\ LET r == GetItemOf(obj, name)
       IN  last' = [NoCall EXCEPT !.op = "getitem", !.name = name, !.err = r.err,
                                  !.ret = r.ret]
    /\ res' = NoObj
    /\ yielded' = <<>>
    /\ UNCHANGED <<obj, built, writes, tampered, pin, pout>>

\* list(t.items())
CallItems ==
    /\ obj.alive
    /\ LET it == Items(obj)
       IN  /\ yielded' = it.pairs
           /\ last' = [NoCall EXCEPT !.op = "items", !.err = it.err]
    /\ res' = NoObj
    /\ UNCHANGED <<obj, built, writes, tampered, pin, pout>>

\* t.isdynamic()
CallIsDynamic ==
    /\ obj.alive
    /\ last' = [NoCall EXCEPT !.op = "isdynamic", !.flag = IsDynamicOf(obj)]
    /\ res' = NoObj
    /\ yielded' = <<>>
    /\ UNCHANGED <<obj, built, writes, tampered, pin, pout>>

\* r = results_substitute(t, kw_dict)
Substitute(kw) ==
    /\ obj.alive
    /\ LET r == ResultsSubstitute(obj, kw)
       IN  /\ res' = r.o
           /\ last' = [NoCall EXCEPT !.op = "substitute", !.kw = kw, !.err = r.err,
                                     !.errkey = r.errkey]
    /\ yielded' = <<>>
    /\ UNCHANGED <<obj, built, writes, tampered, pin, pout>>

\* r = Results(t.items())
RoundTrip ==
    /\ obj.alive
    /\ LET it == Items(obj)
           r == IF it.err # "" THEN [o |-> NoObj, err |-> it.err, errkey |-> ""]
                ELSE ResultsInit(it.pairs)
       IN  /\ res' = r.o
           /\ last' = [NoCall EXCEPT !.op = "roundtrip", !.err = r.err, !.errkey = r.errkey]
    /\ yielded' = <<>>
    /\ UNCHANGED <<obj, built, writes, tampered, pin, pout>>

Next ==
    \/ \E kv \in KeyValueInputs : Construct(kv)
    \/ \E name \in PublicNames : SetAttr(name, 0)
    \/ \E ks \in KeysChoices(obj) : SetKeys(ks)
    \/ \E name \in {"_initialized", "_dynamic"}, b \in BOOLEAN : SetFlag(name, b)
    \/ \E name \in LookupNames : GetItem(name)
    \/ CallItems
    \/ CallIsDynamic
    \/ \E kw \in KwDicts : Substitute(kw)
    \/ RoundTrip

Spec == Init /\ [][Next]_vars

\* get_print_fn_args on its own: the arguments are drawn at the start and the
\* function is applied to them
InitPrint ==
    /\ obj = NoObj
    /\ built = NoBuilt
    /\ writes = 0
    /\ tampered = FALSE
    /\ res = NoObj
    /\ yielded = <<>>
    /\ last = NoCall
    /\ pin \in PrintArgs
    /\ pout = NoOut

CallGetPrintFnArgs ==
    /\ ~pout.called
    /\ pout' = GetPrintFnArgs(pin)
    /\ UNCHANGED <<obj, built, writes, tampered, res, yielded, last, pin>>

NextPrint == CallGetPrintFnArgs

SpecPrint == InitPrint /\ [][NextPrint]_vars

---------------------------------------------------------------------------
(* Properties *)

\* the seven required keys and the two live-point fields, as the
\* specification lists them
SevenRequired ==
    {"samples_u", "samples_id", "logl", "logwt", "logz", "logzerr", "samples"}

LiveFields == {"nlive", "samples_n"}

GivenKeys(kv) == {kv[i][1] : i \in 1..Len(kv)}

\* the trace is in the state its construction left it in
AsBuilt == obj.alive /\ obj = built.o

\* a trace that satisfies the construction schema: marked initialized, every
\* required key and a live-point field among its keys, an attribute behind
\* every key, and the dynamic flag the keys determine
ValidTrace(o) ==
    /\ o.alive
    /\ o.initialized
    /\ SevenRequired \subseteq {o.keys[i] : i \in 1..Len(o.keys)}
    /\ LiveFields \cap {o.keys[i] : i \in 1..Len(o.keys)} # {}
    /\ \A i \in 1..Len(o.keys) : o.keys[i] \in DOMAIN o.attrs
    /\ o.dynamic = ("nlive" \notin {o.keys[i] : i \in 1..Len(o.keys)})

\* C1: a construction from pairs that lack one of the seven required keys
\* fails, whatever other keys are given; the error names a required key that
\* the input does not hold; the caller holds no trace afterwards.
C1_MissingRequiredKeyFails ==
    (last.op = "construct" /\ ~(SevenRequired \subseteq GivenKeys(last.kv))) =>
        /\ last.err = "ValueError"
        /\ last.errkey \in SevenRequired \ GivenKeys(last.kv)
        /\ ~obj.alive
        /\ ~res.alive

C1_Witness ==
    /\ last.op = "construct"
    /\ "samples" \notin GivenKeys(last.kv)
    /\ LiveFields \subseteq GivenKeys(last.kv)
    /\ last.err = "ValueError"
    /\ last.errkey = "samples"

\* C2: with all seven required keys given, a construction fails and leaves the
\* caller without a trace when neither nlive nor samples_n is given, and
\* succeeds when at least one of them is.
C2_LiveInfoDecidesConstruction ==
    (last.op = "construct" /\ SevenRequired \subseteq GivenKeys(last.kv)) =>
        IF LiveFields \cap GivenKeys(last.kv) = {}
        THEN last.err = "ValueError" /\ ~obj.alive
        ELSE last.err = "" /\ obj.alive /\ obj.initialized

C2_Witness ==
    /\ last.op = "construct"
    /\ SevenRequired \subseteq GivenKeys(last.kv)
    /\ LiveFields \cap GivenKeys(last.kv) = {}
    /\ last.err = "ValueError"
    /\ ~obj.alive

\* C3 as stated: a constructed trace carries exactly one of nlive / samples_n,
\* and isdynamic() is true exactly when it carries samples_n.
C3_ExactlyOneLiveField ==
    AsBuilt =>
        /\ Cardinality(LiveFields \cap Range(obj.keys)) = 1
        /\ last.op = "isdynamic" => (last.flag <=> "samples_n" \in Range(obj.keys))

\* C3 as amended: a constructed trace carries at least one of nlive /
\* samples_n (it may carry both); isdynamic() is false exactly when it carries
\* nlive, and true exactly when it carries samples_n and not nlive.
C3_AtLeastOneLiveField ==
    AsBuilt =>
        /\ LiveFields \cap Range(obj.keys) # {}
        /\ last.op = "isdynamic" =>
              /\ ~last.flag <=> "nlive" \in Range(obj.keys)
              /\ last.flag <=> ("samples_n" \in Range(obj.keys) /\ "nlive" \notin Range(obj.keys))

C3_Witness ==
    /\ AsBuilt
    /\ last.op = "isdynamic"
    /\ LiveFields \subseteq Range(obj.keys)
    /\ ~last.flag

C5_NothingRebound == obj.alive => obj = built.o

\* C5 as amended: no public attribute is rebound after construction: as long
\* as no underscore-named attribute (_keys, _dynamic, _initialized) has been
\* assigned, the trace equals the trace its construction left, whatever public
\* assignments, lookups, items(), isdynamic() and results_substitute calls
\* were made.  Underscore-named attributes can be rebound.
C5_NoPublicRebound == (obj.alive /\ ~tampered) => (obj = built.o /\ writes = 0)

C5_Witness ==
    /\ last.op = "substitute"
    /\ "logl" \in DOMAIN last.kw
    /\ res.alive
    /\ ~tampered
    /\ AsBuilt

\* C6: results_substitute on a valid trace returns a new trace with the
\* original's keys in the original order, the kw_dict's value for each key
\* that kw_dict names and the original's value for every other key; the
\* original trace is unchanged by the call.
C6_SubstituteOverridesNamedFields ==
    [][(last'.op = "substitute" /\ ValidTrace(obj)) =>
          /\ last'.err = ""
          /\ res'.alive
          /\ res'.keys = obj.keys
          /\ DOMAIN res'.attrs = Range(obj.keys)
          /\ \A k \in Range(obj.keys) :
                res'.attrs[k] = IF k \in DOMAIN last'.kw THEN last'.kw[k] ELSE obj.attrs[k]
          /\ obj' = obj]_vars

C6_Witness ==
    /\ last.op = "substitute"
    /\ ValidTrace(obj)
    /\ res.alive
    /\ DOMAIN last.kw = {"logl", "bogus"}
    /\ res.attrs["logl"] # obj.attrs["logl"]
    /\ res.attrs["samples"] = obj.attrs["samples"]

\* the value the input gives a key: that of the last pair with the key
LastGiven(kv, k) == kv[MaxOf({i \in 1..Len(kv) : kv[i][1] = k})][2]

\* C7: for a constructed trace, items() yields one pair per key given at
\* construction, in the order given, each with the trace's value for the key
\* (the last value given for it); a trace constructed from these pairs has
\* the same key sequence, the same value for every key and the same
\* isdynamic() result, also when a key was given more than once.
C7_ItemsRoundTrip ==
    /\ (AsBuilt /\ last.op = "items") =>
          /\ last.err = ""
          /\ Len(yielded) = Len(built.given)
          /\ \A i \in 1..Len(yielded) :
                /\ yielded[i][1] = built.given[i][1]
                /\ yielded[i][2] = LastGiven(built.given, built.given[i][1])
    /\ (AsBuilt /\ last.op = "roundtrip") =>
          /\ last.err = ""
          /\ res.alive
          /\ res.keys = KeysOf(built.given)
          /\ res.keys = obj.keys
          /\ \A k \in Range(obj.keys) : res.attrs[k] = obj.attrs[k]
          /\ res.dynamic = obj.dynamic
          /\ res.initialized

C7_Witness ==
    /\ AsBuilt
    /\ last.op = "roundtrip"
    /\ res.alive
    /\ Len(built.given) > Cardinality(GivenKeys(built.given))
    /\ res.keys[1] = "niter"

\* comparisons of float values, as the statement about get_print_fn_args reads them
Negative(x) == x.k = "ninf" \/ (x.k = "num" /\ x.v < 0)

Exceeds(x, n) == x.k = "inf" \/ (x.k = "num" /\ x.v > n)

AtOrBelow(x, n) == x.k = "ninf" \/ (x.k = "num" /\ x.v <= n)

ItemWith(items, fmt) == items[CHOOSE i \in 1..Len(items) : items[i].fmt = fmt]

\* C8: get_print_fn_args reports the standard error as nan when the variance
\* is negative or above 1e6 and as its square root otherwise; delta_logz as
\* inf when above 1e6 and unchanged otherwise; logz and loglstar as -inf when
\* at or below -1e6 and unchanged otherwise.  The variance 1e6 and the
\* delta_logz 1e6 stay finite; the value -1e6 becomes -inf.
C8_PrintClamps ==
    (pout.called /\ pout.err = "") =>
        LET r == pin.results
            zl == ItemWith(pout.long_str, "logz: {:6.3f} +/- {:6.3f}")
            zs == ItemWith(pout.short_str, "logz: {:6.1f}+/-{:.1f}")
            ll == ItemWith(pout.long_str, "loglstar: {:6.3f} < {:6.3f} < {:6.3f}")
            ls == ItemWith(pout.short_str, "logl*: {:6.1f}<{:6.1f}<{:6.1f}")
            err == zl.args[2]
        IN  /\ zs.args = zl.args
            /\ ls.args = ll.args
            /\ IF Negative(r.logzvar) \/ Exceeds(r.logzvar, 1000000)
               THEN err = NaN
               ELSE IF r.logzvar.k = "num"
                    THEN err.k = "num" /\ err.v >= 0 /\ err.v * err.v = r.logzvar.v
                    ELSE err = NaN
            /\ zl.args[1] = IF AtOrBelow(r.logz, -1000000) THEN NInf ELSE r.logz
            /\ ll.args[2] = IF AtOrBelow(r.loglstar, -1000000) THEN NInf ELSE r.loglstar
            /\ pin.dlogz.k # "none" =>
                  LET dl == ItemWith(pout.long_str, "dlogz: {:6.3f} > {:6.3f}")
                      dm == ItemWith(pout.mid_str, "dlogz: {:6.1f}>{:6.1f}")
                  IN  /\ dm.args = dl.args
                      /\ dl.args[1] = IF Exceeds(r.delta_logz, 1000000) THEN PInf
                                      ELSE r.delta_logz

C8_Witness ==
    /\ pout.called
    /\ pout.err = ""
    /\ pin.dlogz.k # "none"
    /\ pin.results.logzvar = Num(1000000)
    /\ pin.results.delta_logz = Num(1000000)
    /\ pin.results.logz = Num(-1000000)
    /\ pin.results.loglstar = Num(-1000001)
    /\ ItemWith(pout.long_str, "logz: {:6.3f} +/- {:6.3f}").args = <<NInf, Num(1000)>>

\* C10: results_substitute adds, removes and reorders no field: a kw_dict key
\* that is no key of the trace is ignored, the call on a valid trace always
\* succeeds, and the result has the keys and the isdynamic() value of the
\* original; a static trace stays static and a dynamic one dynamic.
C10_SubstituteKeepsSchema ==
    (last.op = "substitute" /\ ValidTrace(obj)) =>
        /\ last.err = ""
        /\ res.alive
        /\ res.keys = obj.keys
        /\ DOMAIN res.attrs = Range(obj.keys)
        /\ res.dynamic = obj.dynamic

C10_Witness ==
    /\ last.op = "substitute"
    /\ ValidTrace(obj)
    /\ DOMAIN last.kw = {"samples_n", "bogus"}
    /\ "samples_n" \notin Range(obj.keys)
    /\ res.alive
    /\ ~res.dynamic
    /\ "bogus" \notin DOMAIN res.attrs

====
